---- MODULE Spec2Model ----
(***************************************************************************)
(* Model of dependi's decoration builder (vscode/src/ui/decoration.ts) and *)
(* of its two replace commands (replaceVersion, updateAll).                *)
(*                                                                         *)
(* Text is a sequence of atoms.  An atom is one character ("1", ".", ",")  *)
(* or one indivisible piece of a template or of generated markdown (the    *)
(* placeholder "${version}", a literal such as "#### Versions").  String   *)
(* operations of the source (replace, substr, split, trim) are modelled on *)
(* these sequences the way JavaScript computes them.                       *)
(***************************************************************************)
EXTENDS Integers, Sequences, FiniteSets, TLC

\* ------------------------------------------------------------------ bounds
MaxVersions == 2
MaxAdvisories == 2
MaxQueue == 2
MaxCalls == 3

\* JavaScript's undefined / null.
Null == <<"<undefined>">>

\* ------------------------------------------------------------ text helpers
Quote == "\""
Tab == "\t"
NL == "\n"

RECURSIVE IndexOf(_, _, _)
\* Position of the first atom of s, at or after i, equal to a; 0 when none.
IndexOf(s, a, i) ==
  IF i > Len(s) THEN 0
  ELSE IF s[i] = a THEN i
  ELSE IndexOf(s, a, i + 1)

\* String.prototype.replace(pattern, replacement) with a string pattern:
\* only the FIRST occurrence is replaced.
ReplaceFirst(s, a, r) ==
  LET i == IndexOf(s, a, 1) IN
  IF i = 0 THEN s
  ELSE SubSeq(s, 1, i - 1) \o r \o SubSeq(s, i + 1, Len(s))

\* String.prototype.replace(/a/g, ""): every occurrence removed.
RemoveAll(s, a) == SelectSeq(s, LAMBDA c : c # a)

\* String.prototype.substr(start, length).
SubStr(s, start, length) ==
  IF length <= 0 \/ start >= Len(s) THEN <<>>
  ELSE SubSeq(s, start + 1, IF start + length > Len(s) THEN Len(s) ELSE start + length)

IsSpace(c) == c \in {" ", Tab, NL}

RECURSIVE TrimLeft(_)
TrimLeft(s) == IF s # <<>> /\ IsSpace(Head(s)) THEN TrimLeft(Tail(s)) ELSE s

RECURSIVE TrimRight(_)
TrimRight(s) ==
  IF s # <<>> /\ IsSpace(s[Len(s)]) THEN TrimRight(SubSeq(s, 1, Len(s) - 1)) ELSE s

\* String.prototype.trim().
Trim(s) == TrimRight(TrimLeft(s))

RECURSIVE Split(_, _)
\* String.prototype.split(sep) for a one-character separator.
Split(s, sep) ==
  LET i == IndexOf(s, sep, 1) IN
  IF i = 0 THEN <<s>>
  ELSE <<SubSeq(s, 1, i - 1)>> \o Split(SubSeq(s, i + 1, Len(s)), sep)

\* Template literal `${n}` for the small numbers the model reaches.
NumText(n) ==
  IF n < 10 THEN <<<<"0", "1", "2", "3", "4", "5", "6", "7", "8", "9">>[n + 1]>>
  ELSE <<"many">>

StartsWith(s, p) == Len(p) <= Len(s) /\ SubSeq(s, 1, Len(p)) = p
EndsWith(s, p) == Len(p) <= Len(s) /\ SubSeq(s, Len(s) - Len(p) + 1, Len(s)) = p

\* ------------------------------------------------- semver (library) model
Digits == {"0", "1", "2", "3", "4", "5", "6", "7", "8", "9"}
DigitVal(c) == CHOOSE n \in 0..9 : <<"0", "1", "2", "3", "4", "5", "6", "7", "8", "9">>[n + 1] = c

\* A full version of the model: three one-digit parts, "a.b.c".
IsVersion(s) ==
  /\ Len(s) = 5
  /\ s[1] \in Digits /\ s[3] \in Digits /\ s[5] \in Digits
  /\ s[2] = "." /\ s[4] = "."

VersionKey(s) == 100 * DigitVal(s[1]) + 10 * DigitVal(s[3]) + DigitVal(s[5])

\* One comparator of a range: an optional operator and a version.
ComparatorOps == {<<"^">>, <<"~">>, <<">">>, <<"<">>, <<"=">>, <<">", "=">>, <<"<", "=">>}
IsComparator(s) ==
  \/ IsVersion(s)
  \/ \E op \in ComparatorOps : StartsWith(s, op) /\ IsVersion(SubSeq(s, Len(op) + 1, Len(s)))

\* semver.validRange(range) as a truth value: a range is a list of
\* comparators separated by spaces; the empty string is the range "*";
\* undefined, and anything with a character no comparator holds (",", "?",
\* a quote), is not a range (validRange returns null).
ValidRange(s) ==
  /\ s # Null
  /\ \/ s = <<>>
     \/ LET parts == Split(s, " ") IN \A i \in 1..Len(parts) : IsComparator(parts[i])

\* semver.satisfies(v, range) for the ranges above.
SatisfiesComparator(v, c) ==
  LET k == VersionKey(v) IN
  IF IsVersion(c) THEN k = VersionKey(c)
  ELSE LET op == CHOOSE o \in ComparatorOps :
                   StartsWith(c, o) /\ IsVersion(SubSeq(c, Len(o) + 1, Len(c)))
           w == SubSeq(c, Len(op) + 1, Len(c))
           kw == VersionKey(w)
       IN CASE op = <<"^">> ->
                 /\ k >= kw
                 /\ IF DigitVal(w[1]) > 0 THEN DigitVal(v[1]) = DigitVal(w[1])
                    ELSE IF DigitVal(w[3]) > 0
                         THEN DigitVal(v[1]) = 0 /\ DigitVal(v[3]) = DigitVal(w[3])
                         ELSE k = kw
            [] op = <<"~">> ->
                 k >= kw /\ DigitVal(v[1]) = DigitVal(w[1]) /\ DigitVal(v[3]) = DigitVal(w[3])
            [] op = <<">">> -> k > kw
            [] op = <<"<">> -> k < kw
            [] op = <<"=">> -> k = kw
            [] op = <<">", "=">> -> k >= kw
            [] op = <<"<", "=">> -> k <= kw

Satisfies(v, range) ==
  /\ IsVersion(v)
  /\ ValidRange(range)
  /\ LET parts == Split(range, " ") IN
     range = <<>> \/ \A i \in 1..Len(parts) : SatisfiesComparator(v, parts[i])

\* semver.maxSatisfying(versions, range): the highest entry of versions that
\* satisfies range, null when none does (entries that are no versions never do).
MaxSatisfying(range, versions) ==
  LET ok == {i \in 1..Len(versions) : Satisfies(versions[i], range)} IN
  IF ok = {} THEN Null
  ELSE versions[CHOOSE i \in ok : \A j \in ok : VersionKey(versions[i]) >= VersionKey(versions[j])]

\* checkVersion(version, versions) -> [satisfies, maxSatisfying].  Its file
\* (semver/semverUtils) is not part of the sources at hand: maxSatisfying is
\* the highest known version satisfying the constraint, and the boolean is
\* left open, so the builder is checked for both of its values.
CheckVersion(version, versions) ==
  {<<sat, MaxSatisfying(version, versions)>> : sat \in BOOLEAN}

\* ------------------------------------------------------------ data model
\* A Position {line, character} and a Range {start, end} of the editor.
Pos(l, c) == [line |-> l, character |-> c]
Rng(sl, sc, el, ec) == [start |-> Pos(sl, sc), end |-> Pos(el, ec)]
NoRange == Rng(0, 0, 0, 0)

\* Requests a handler or the builder sends to the editor, in issue order.
ReplaceEvent(range, text) == [op |-> "replace", range |-> range, text |-> text]
SaveEvent == [op |-> "save", range |-> NoRange, text |-> <<>>]

\* One piece appended to a MarkdownString.  kind "markdown" is a raw
\* appendMarkdown, kind "text" an escaped appendText, kind "version" one
\* bullet of appendVersions (its command link kept in structured form: the
\* ReplaceItem that JSON.stringify and encodeURI serialise, the bold
\* markers, the docs link and the vulnerability text).
MdPart(kind, text) ==
  [kind |-> kind, text |-> text, bold |-> FALSE, value |-> <<>>,
   range |-> NoRange, docs |-> <<>>, vulnText |-> <<>>]
VersionPart(version, bold, range, docs, vulnText) ==
  [kind |-> "version", text |-> version, bold |-> bold, value |-> version,
   range |-> range, docs |-> docs, vulnText |-> vulnText]

\* Map<string, string[]> | undefined: the map is a sequence of
\* <<key, advisories>> entries with distinct keys.
NoMap == [defined |-> FALSE, entries |-> <<>>]
Map(entries) == [defined |-> TRUE, entries |-> entries]

RECURSIVE EntriesGet(_, _)
EntriesGet(es, k) ==
  IF es = <<>> THEN Null
  ELSE IF Head(es)[1] = k THEN Head(es)[2]
  ELSE EntriesGet(Tail(es), k)

\* vuln?.get(key): undefined without the key, and for an undefined map.
MapGet(m, k) == IF ~m.defined THEN Null ELSE EntriesGet(m.entries, k)

\* ------------------------------------------------------ decoration.ts
\* const version = item.value?.replace(",", "")
NormalizedVersion(value) ==
  IF value = Null THEN Null ELSE ReplaceFirst(value, ",", <<>>)

\* MarkdownString.appendText: markdown-sensitive characters are escaped
\* with a backslash (the backquote is the atom "<backquote>").
MarkdownSpecial == {"\\", "<backquote>", "*", "_", "{", "}", "[", "]", "(", ")", "#", "+", "-", "!", "~"}
RECURSIVE EscapeText(_)
EscapeText(s) ==
  IF s = <<>> THEN <<>>
  ELSE (IF Head(s) \in MarkdownSpecial THEN <<"\\", Head(s)>> ELSE <<Head(s)>>)
       \o EscapeText(Tail(s))

RECURSIVE ErrorBullets(_)
ErrorBullets(parts) ==
  IF parts = <<>> THEN <<>>
  ELSE <<MdPart("markdown", <<"* ">>),
         MdPart("text", EscapeText(Trim(Head(parts)))),
         MdPart("markdown", <<NL>>)>> \o ErrorBullets(Tail(parts))

\* formatError: one bullet per non-empty line of the error.
FormatError(error) ==
  <<MdPart("markdown", <<"#### Errors ">>), MdPart("markdown", <<NL>>)>>
  \o ErrorBullets(SelectSeq(Split(error, NL), LAMBDA p : p # <<>>))

GetContentText(decorationPreferences, type) ==
  IF type = "ERROR" THEN decorationPreferences.errorText
  ELSE IF type = "INCOMP" THEN decorationPreferences.incompatibleText
  ELSE decorationPreferences.compatibleText

GetLinks(lang, key) ==
  LET cleanKey == RemoveAll(key, Quote) IN
  CASE lang = "Rust" ->
         <<" _( [View Crate](https://crates.io/crates/">> \o cleanKey
         \o <<") | [Check Reviews](https://web.crev.dev/rust-reviews/crate/">> \o cleanKey
         \o <<") )_">>
    [] lang = "Golang" ->
         <<" _( [View Module](https://pkg.go.dev/">> \o cleanKey
         \o <<") | [Check Docs](https://pkg.go.dev/">> \o cleanKey
         \o <<"#section-documentation) )_">>
    [] lang = "JS" ->
         <<" _( [View Package](https://npmjs.com/package/">> \o cleanKey \o <<") )_">>
    [] lang = "Python" ->
         <<" _( [View Package](https://pypi.org/project/">> \o cleanKey \o <<") )_">>
    [] OTHER -> <<>>

GetDocsLink(lang, key, version) ==
  CASE lang = "Rust" ->
         <<"[(docs)](https://docs.rs/crate/">> \o key \o <<"/">> \o version \o <<")">>
    [] lang = "Golang" ->
         <<"[(docs)](https://pkg.go.dev/">> \o key \o <<"@">> \o version
         \o <<"#section-documentation)">>
    [] lang = "JS" ->
         <<"[(docs)](https://npmjs.com/package/">> \o key \o <<"/v/">> \o version \o <<")">>
    [] lang = "Python" ->
         <<"[(docs)](https://pypi.org/project/">> \o key \o <<"/">> \o version \o <<")">>
    [] OTHER -> <<>>

\* One advisory bullet: ` - [id](https://osv.dev/vulnerability/id) \n`.
OsvLinkOpen == "](https://osv.dev/vulnerability/"
AdvisoryLink(v) == <<" - [", v, OsvLinkOpen, v, ") \n">>

RECURSIVE JoinLinks(_)
JoinLinks(vs) == IF vs = <<>> THEN <<>> ELSE AdvisoryLink(Head(vs)) \o JoinLinks(Tail(vs))

\* The string the builder looks vulnerabilities up by.
VulnKeyLatest(version, versions) == versions[1]

VulnKey(version, versions) == version

AppendVulnerabilities(vuln, version) ==
  LET v == MapGet(vuln, version) IN
  IF v # Null /\ Len(v) > 0
  THEN <<MdPart("markdown", <<"#### Vulnerabilities (Current)">>),
         MdPart("markdown", <<NL>> \o JoinLinks(v))>>
  ELSE <<>>

VulnText(decorationPreferences, v) ==
  IF v # Null /\ Len(v) > 0
  THEN ReplaceFirst(decorationPreferences.vulnText, "${count}", NumText(Len(v)))
  ELSE <<>>

\* isCurrent of appendVersions, for the i-th entry.
IsCurrentFirst(versions, i, maxSatisfying) == i = 1

IsCurrent(versions, i, maxSatisfying) == versions[i] = maxSatisfying

\* appendVersions: its caller passes maxSatisfying ?? "".
AppendVersions(versions, item, maxSatisfying, vuln, decorationPreferences, lang) ==
  [i \in 1..Len(versions) |->
     LET version == versions[i]
         isCurrent == IsCurrent(versions, i, maxSatisfying)
     IN VersionPart(version, isCurrent,
                    Rng(item.range.start.line, item.range.start.character,
                        item.range.end.line, item.range.end.character),
                    IF i = 1 \/ isCurrent THEN GetDocsLink(lang, item.key, version) ELSE <<>>,
                    VulnText(decorationPreferences, MapGet(vuln, version)))]

\* The auto-fill of a "?" value: editor.edit(replace) and document.save().
AutoFill(version, versions, item) ==
  IF version = <<"?">>
  THEN <<ReplaceEvent(item.range, SubStr(versions[1], 1, Len(versions[1]) - 2)), SaveEvent>>
  ELSE <<>>

\* The classification of the branch without an error.
ClassifyLatestOnly(version, versions, satisfies, maxSatisfying) ==
  IF ~ValidRange(version) THEN "ERROR"
  ELSE IF satisfies THEN "COMP" ELSE "INCOMP"

Classify(version, versions, satisfies, maxSatisfying) ==
  IF ~ValidRange(version) THEN "ERROR"
  ELSE IF versions[1] # maxSatisfying THEN (IF satisfies THEN "COMP" ELSE "INCOMP")
  ELSE "COMP"

\* JavaScript truthiness of the optional error string.
Truthy(error) == error # Null /\ error # <<>>

\* decoration(editor, item, versions, decorationPreferences, lang, vuln, error)
\* for one result [satisfies, maxSatisfying] of checkVersion.  The value is
\* the returned pair (deco, type) and the requests sent to the editor.
Decoration(item, versions, decorationPreferences, lang, vuln, error, checked) ==
  LET version == NormalizedVersion(item.value)
      satisfies == checked[1]
      maxSatisfying == checked[2]
      position == decorationPreferences.position
      range == IF position = "after" THEN item.decoRange
               ELSE Rng(item.line, 0, item.line, item.endOfLine)
  IN IF Truthy(error)
     THEN [type |-> "ERROR", version |-> version, position |-> position,
           contentText |-> <<>>, range |-> range,
           hover |-> FormatError(error), isTrusted |-> FALSE, events |-> <<>>]
     ELSE LET type == Classify(version, versions, satisfies, maxSatisfying)
              vulnerabilities == MapGet(vuln, VulnKey(version, versions))
              text == ReplaceFirst(GetContentText(decorationPreferences, type),
                                   "${version}", versions[1])
          IN [type |-> type, version |-> version, position |-> position,
              contentText |->
                IF vulnerabilities # Null /\ Len(vulnerabilities) > 0
                THEN text \o <<Tab>> \o VulnText(decorationPreferences, vulnerabilities)
                ELSE text,
              range |-> range,
              hover |->
                AppendVulnerabilities(vuln, VulnKey(version, versions))
                \o <<MdPart("markdown", <<"#### Versions">>),
                     MdPart("markdown", GetLinks(lang, item.key))>>
                \o AppendVersions(versions, item,
                                  IF maxSatisfying = Null THEN <<>> ELSE maxSatisfying,
                                  vuln, decorationPreferences, lang),
              isTrusted |-> TRUE,
              events |-> AutoFill(version, versions, item)]

\* ------------------------------------------------------------ inputs
V200 == <<"2", ".", "0", ".", "0">>
V150 == <<"1", ".", "5", ".", "0">>
Quoted123 == <<Quote, "1", ".", "2", ".", "3", Quote>>
Empty == <<>>
Placeholder == <<"?">>
Caret100 == <<"^", "1", ".", "0", ".", "0">>
Caret300 == <<"^", "3", ".", "0", ".", "0">>
Garbage == <<"x">>
TrailingComma == V150 \o <<",">>
InnerComma == <<">", "=", "1", ".", "0", ".", "0", ",", " ", "<", "2", ".", "0", ".", "0">>
BothCommas == InnerComma \o <<",">>

\* Version strings a fetched list may hold: two releases, an empty entry
\* and an entry that still carries its quotes.
VersionPool == {V200, V150, Empty, Quoted123}

\* Non-empty version lists of up to MaxVersions entries, repeats included.
VersionLists == UNION {[1..n -> VersionPool] : n \in 1..MaxVersions}

\* item.value: absent, the placeholder, ranges, values with commas, garbage.
Values ==
  {Null, Placeholder, Caret100, Caret300, V150, TrailingComma, InnerComma, BothCommas, Garbage}

Items ==
  {[key |-> <<Quote, "s", Quote>>, value |-> v, range |-> Rng(1, 5, 1, 8),
    line |-> 1, endOfLine |-> 9, decoRange |-> Rng(1, 9, 1, 9)] : v \in Values}

\* Advisory identifiers, each one atom.
AdvisoryIds == <<"OSV-1", "OSV-2", "OSV-3", "OSV-4">>
Advisories(n) == [i \in 1..n |-> AdvisoryIds[i]]

\* The vulnerability map: absent, empty, or one version with 0..MaxAdvisories
\* advisories.
VulnMaps ==
  {NoMap, Map(<<>>)}
  \cup {Map(<<<<k, Advisories(n)>>>>) : k \in {V150, V200}, n \in 0..MaxAdvisories}

\* The optional error: absent, empty, or two lines around an empty one.
Errors == {Null, <<>>, <<"E", "*", NL, NL, " ", "F">>}

\* DecorationPreferences with the language they are used with.
Presentations ==
  {<<[position |-> "after",
      compatibleText |-> <<"ok ", "${version}">>,
      incompatibleText |-> <<"old ", "${version}">>,
      errorText |-> <<"err ", "${version}", " ", "${version}">>,
      vulnText |-> <<"vuln ", "${count}", "/", "${count}">>], "Rust">>,
   <<[position |-> "before",
      compatibleText |-> <<"${version}">>,
      incompatibleText |-> <<"-> ", "${version}">>,
      errorText |-> <<"!">>,
      vulnText |-> <<"${count}">>], "Other">>}

\* ReplaceItems of the replace commands.
ReplaceItems ==
  {[value |-> V200, range |-> Rng(1, 5, 1, 10)],
   [value |-> V150, range |-> Rng(2, 20, 2, 25)]}

\* ------------------------------------------------------------ state
VARIABLES
  deco,       \* the last call of decoration: its arguments and what it gave
  status,     \* status of commands/replacers/replace: inProgress, replaceItems
  last,       \* the last command invocation: what it found, what it issued
  calls       \* command invocations so far

vars == <<deco, status, last, calls>>

\* The arguments of one call of decoration(...), before it runs.
DecoArgs ==
  {[called |-> FALSE, item |-> item, versions |-> versions,
    prefs |-> pres[1], lang |-> pres[2], vuln |-> vuln, error |-> error,
    satisfies |-> FALSE, maxSatisfying |-> Null, res |-> Null] :
     item \in Items, versions \in VersionLists, pres \in Presentations,
     vuln \in VulnMaps, error \in Errors}

NoCall ==
  [cmd |-> "none", info |-> [present |-> FALSE], guardAtStart |-> FALSE, itemsAtStart |-> <<>>,
   events |-> <<>>, thrown |-> FALSE]

InitStatus ==
  /\ status = [inProgress |-> FALSE, replaceItems |-> <<>>]
  /\ last = NoCall
  /\ calls = 0

\* The listener is about to call decoration(...) with any arguments.
InitDeco ==
  /\ deco \in DecoArgs
  /\ InitStatus

\* The call of decoration(...): checkVersion, then the builder.
Decorate ==
  /\ ~deco.called
  /\ \E checked \in CheckVersion(NormalizedVersion(deco.item.value), deco.versions) :
       deco' = [deco EXCEPT
                  !.called = TRUE,
                  !.satisfies = checked[1],
                  !.maxSatisfying = checked[2],
                  !.res = Decoration(deco.item, deco.versions, deco.prefs, deco.lang,
                                     deco.vuln, deco.error, checked)]
  /\ UNCHANGED <<status, last, calls>>

NextDeco == Decorate

SpecDeco == InitDeco /\ [][NextDeco]_vars

\* ------------------------------------------------ the replace commands
\* The argument of the replace-version command: absent, a payload without
\* a well-formed range, or a ReplaceItem.
NoInfo == [present |-> FALSE, ranged |-> FALSE, value |-> <<>>, range |-> NoRange]
Malformed == [present |-> TRUE, ranged |-> FALSE, value |-> V200, range |-> NoRange]
Info(r) == [present |-> TRUE, ranged |-> TRUE, value |-> r.value, range |-> r.range]
Payloads == {NoInfo, Malformed} \cup {Info(r) : r \in ReplaceItems}

\* The handler of replaceVersion, run on status st with argument info:
\* the status it leaves, the requests it issued, and whether it threw.
\* Reading info.range.start.line of a payload without a range throws after
\* inProgress was set and before anything else runs.
ReplaceVersionRun(st, info) ==
  IF info.present /\ ~st.inProgress
  THEN IF ~info.ranged
       THEN [status |-> [st EXCEPT !.inProgress = TRUE], events |-> <<>>, thrown |-> TRUE]
       ELSE [status |-> [st EXCEPT !.inProgress = FALSE],
             events |-> <<ReplaceEvent(info.range, info.value), SaveEvent>>,
             thrown |-> FALSE]
  ELSE [status |-> st, events |-> <<SaveEvent>>, thrown |-> FALSE]

\* The loop of updateAll: one edit.replace per item, from the last to the first.
UpdateAllEditsForward(items) ==
  [i \in 1..Len(items) |-> ReplaceEvent(items[i].range, items[i].value)]

UpdateAllEdits(items) ==
  [i \in 1..Len(items) |->
     ReplaceEvent(items[Len(items) + 1 - i].range, items[Len(items) + 1 - i].value)]

\* The handler of updateAll.
UpdateAllRun(st) ==
  IF ~st.inProgress /\ Len(st.replaceItems) > 0
  THEN [status |-> [st EXCEPT !.inProgress = FALSE],
        events |-> UpdateAllEdits(st.replaceItems) \o <<SaveEvent>>,
        thrown |-> FALSE]
  ELSE [status |-> st, events |-> <<>>, thrown |-> FALSE]

InitCmd ==
  /\ deco = [called |-> FALSE]
  /\ InitStatus

\* The user clicks a version link (or the command is run with any argument).
ReplaceVersion ==
  /\ calls < MaxCalls
  /\ \E info \in Payloads :
       LET run == ReplaceVersionRun(status, info) IN
       /\ status' = run.status
       /\ last' = [cmd |-> "replaceVersion", info |-> info,
                   guardAtStart |-> status.inProgress,
                   itemsAtStart |-> status.replaceItems,
                   events |-> run.events, thrown |-> run.thrown]
  /\ calls' = calls + 1
  /\ UNCHANGED deco

\* The user runs the update-all command.
UpdateAll ==
  /\ calls < MaxCalls
  /\ LET run == UpdateAllRun(status) IN
     /\ status' = run.status
     /\ last' = [cmd |-> "updateAll", info |-> NoInfo,
                 guardAtStart |-> status.inProgress,
                 itemsAtStart |-> status.replaceItems,
                 events |-> run.events, thrown |-> run.thrown]
  /\ calls' = calls + 1
  /\ UNCHANGED deco

\* The listener queues one more ReplaceItem for update-all.
Accumulate ==
  /\ Len(status.replaceItems) < MaxQueue
  /\ \E r \in ReplaceItems :
       status' = [status EXCEPT !.replaceItems = Append(@, r)]
  /\ UNCHANGED <<deco, last, calls>>

NextCmd == ReplaceVersion \/ UpdateAll \/ Accumulate

SpecCmd == InitCmd /\ [][NextCmd]_vars

\* ------------------------------------------------------------ claims
NoError == ~Truthy(deco.error)

\* The version bullets of the hover document, in document order.
Bullets == SelectSeq(deco.res.hover, LAMBDA p : p.kind = "version")

\* C1: the classification returned by the builder is ERROR when a non-empty
\* error is supplied, else ERROR when the normalized declared value is no
\* valid range, else (when versions[0] differs from maxSatisfying) COMP if
\* satisfies and INCOMP if not, else COMP; the vulnerability map plays no
\* part in it.
C1_Classification ==
  deco.called =>
    deco.res.type =
      IF deco.error # Null /\ Len(deco.error) > 0 THEN "ERROR"
      ELSE IF ~ValidRange(deco.res.version) THEN "ERROR"
      ELSE IF deco.versions[1] # deco.maxSatisfying
           THEN (IF deco.satisfies THEN "COMP" ELSE "INCOMP")
           ELSE "COMP"

C1_Witness ==
  /\ deco.called /\ NoError
  /\ ValidRange(deco.res.version)
  /\ deco.versions[1] # deco.maxSatisfying
  /\ ~deco.satisfies
  /\ deco.res.type = "INCOMP"
  /\ deco.vuln.defined /\ deco.vuln.entries # <<>>

\* C2: with no error and the declared value "?", the parse check is applied
\* to the auto-filled versions[0]: when versions[0] is a valid range (here a
\* non-empty one) the classification is not ERROR.
C2_PlaceholderNotError ==
  (/\ deco.called /\ NoError
   /\ deco.item.value = Placeholder
   /\ deco.versions[1] # <<>> /\ ValidRange(deco.versions[1]))
    => deco.res.type # "ERROR"

\* C3: with no error and the declared value "?", the builder issues exactly
\* one edit of item.range, whose text is versions[0] without its first and
\* last character, these two being quote delimiters, and then one save; with
\* any other declared value it issues no edit and no save.  (Stated for a
\* non-empty versions[0].)
C3_AutoFillStripsQuotes ==
  (deco.called /\ NoError /\ deco.versions[1] # <<>>) =>
    IF deco.item.value = Placeholder
    THEN LET v == deco.versions[1] IN
         /\ Len(v) >= 2 /\ v[1] = Quote /\ v[Len(v)] = Quote
         /\ deco.res.events = <<ReplaceEvent(deco.item.range, SubSeq(v, 2, Len(v) - 1)), SaveEvent>>
    ELSE deco.res.events = <<>>

\* C4: a replace-version or update-all invocation that starts while
\* inProgress is true does nothing: no edit, no save, inProgress and
\* replaceItems as they were.
C4_ReentrantCallIsNoOp ==
  (last.cmd \in {"replaceVersion", "updateAll"} /\ last.guardAtStart) =>
    /\ last.events = <<>>
    /\ status.inProgress
    /\ status.replaceItems = last.itemsAtStart

\* C5: update-all with the guard clear and a queue r1..rn applies exactly n
\* edits, rn first and r1 last, each writing its item's value to its item's
\* range, and then issues one save; with an empty queue it issues nothing.
C5_UpdateAllReverseOrder ==
  (last.cmd = "updateAll" /\ ~last.guardAtStart) =>
    LET items == last.itemsAtStart
        n == Len(items)
    IN IF n = 0 THEN last.events = <<>>
       ELSE /\ Len(last.events) = n + 1
            /\ \A i \in 1..n :
                 last.events[i] = ReplaceEvent(items[n + 1 - i].range, items[n + 1 - i].value)
            /\ last.events[n + 1] = SaveEvent

C5_Witness ==
  /\ last.cmd = "updateAll" /\ ~last.guardAtStart
  /\ Len(last.itemsAtStart) >= 2
  /\ last.itemsAtStart[1] # last.itemsAtStart[2]
  /\ Len(last.events) = Len(last.itemsAtStart) + 1

\* C6: between handlers inProgress is false; an invocation with an absent
\* or malformed payload leaves the guard false, mutates nothing, and lets no
\* fault escape.
C6_GuardReleased ==
  /\ ~status.inProgress
  /\ ~last.thrown
  /\ (last.cmd = "replaceVersion" /\ ~(last.info.present /\ last.info.ranged)) =>
       \A i \in 1..Len(last.events) : last.events[i].op # "replace"

\* C7: the inline text of every call begins with the template of the
\* returned classification, ${version} replaced by versions[0]; also when an
\* error string is supplied.
C7_InlineTextFromTemplate ==
  deco.called =>
    StartsWith(deco.res.contentText,
               ReplaceFirst(GetContentText(deco.prefs, deco.res.type),
                            "${version}", deco.versions[1]))

\* The tab and the vulnerability text for k advisories.
VulnSuffix(k) == <<Tab>> \o ReplaceFirst(deco.prefs.vulnText, "${count}", NumText(k))

\* The hover document opens with the Vulnerabilities (Current) section
\* holding one osv.dev link per advisory of adv, in order.
HasVulnSection(adv) ==
  /\ Len(deco.res.hover) >= 2
  /\ deco.res.hover[1] = MdPart("markdown", <<"#### Vulnerabilities (Current)">>)
  /\ LET text == deco.res.hover[2].text IN
     /\ Len(SelectSeq(text, LAMBDA a : a = OsvLinkOpen)) = Len(adv)
     /\ \A i \in 1..Len(adv) :
          /\ text[5 * i - 1] = OsvLinkOpen
          /\ text[5 * i] = adv[i]

NoVulnSection ==
  \A i \in 1..Len(deco.res.hover) :
    deco.res.hover[i].text # <<"#### Vulnerabilities (Current)">>

\* What the builder reports for the advisories adv (undefined when none).
ReportsVulnerabilities(adv) ==
  IF adv # Null /\ Len(adv) >= 1
  THEN /\ EndsWith(deco.res.contentText, VulnSuffix(Len(adv)))
       /\ HasVulnSection(adv)
  ELSE /\ IndexOf(deco.res.contentText, Tab, 1) = 0
       /\ NoVulnSection

OneBulletPerVersion ==
  /\ Len(Bullets) = Len(deco.versions)
  /\ \A i \in 1..Len(deco.versions) :
       /\ Bullets[i].text = deco.versions[i]
       /\ Bullets[i].value = deco.versions[i]
       /\ Bullets[i].range = deco.item.range

BoldBullets == {i \in 1..Len(Bullets) : Bullets[i].bold}

StripTrailingComma(value) ==
  IF value # <<>> /\ value[Len(value)] = "," THEN SubSeq(value, 1, Len(value) - 1)
  ELSE value

\* C10: the constraint handed to checkVersion, to the parse check and to
\* the vulnerability lookup is item.value without a trailing comma; inner
\* commas stay.
C10_OnlyTrailingCommaStripped ==
  (deco.called /\ deco.item.value # Null) =>
    deco.res.version = StripTrailingComma(deco.item.value)

====
